---- MODULE Spec2Model ----
(***************************************************************************)
(* A model of python/pip_install/tools/dependency_resolver/                *)
(* dependency_resolver.py: the wrapper that runs pip-compile under Bazel,  *)
(* either updating the committed lock file (bazel run) or checking it      *)
(* against a scratch copy (bazel test).                                    *)
(*                                                                         *)
(* Strings that the program takes apart (file contents, provenance         *)
(* strings) are sequences of one-character strings; strings it only passes *)
(* around (paths, environment values) are TLA+ strings.                    *)
(***************************************************************************)
EXTENDS Integers, Sequences, FiniteSets, TLC

(***************************************************************************)
(* Bounds of the model.                                                    *)
(***************************************************************************)
\* longest provenance string handed to the annotation formatters
MaxStrLen == 2
\* most entries in one required_by collection
MaxEntries == 2

(***************************************************************************)
(* Python values.                                                          *)
(***************************************************************************)
\* Python's None (no input string has this value)
PyNone == "<None>"
\* an environment variable that is not set, a file that does not exist
Unset == "<unset>"
NoFile == <<"<nofile>">>

RECURSIVE SeqsUpTo(_, _)
SeqsUpTo(S, n) ==
  IF n = 0 THEN {<<>>}
  ELSE LET shorter == SeqsUpTo(S, n - 1)
       IN  shorter \cup {Append(s, x) : s \in {t \in shorter : Len(t) = n - 1}, x \in S}

RECURSIVE Count(_, _)
\* how many entries of sequence s satisfy being equal to x
Count(s, x) ==
  IF s = <<>> THEN 0
  ELSE (IF Head(s) = x THEN 1 ELSE 0) + Count(Tail(s), x)

Range(s) == {s[i] : i \in DOMAIN s}

(***************************************************************************)
(* Paths and files of one run.                                             *)
(***************************************************************************)
RequirementsIn == "deps/requirements.in"
ResolvedRequirementsIn == "/abs/deps/requirements.in"
RequirementsTxt == "deps/requirements.txt"
RequirementsLinux == "deps/requirements_linux.txt"
RequirementsDarwin == "deps/requirements_darwin.txt"
RequirementsWindows == "deps/requirements_windows.txt"
\* a platform lock file that was never committed
RequirementsMissing == "deps/requirements_missing.txt"
UpdateTargetLabel == "//deps:requirements.update"
TestTmpdir == "tmp"
WorkspaceDir == "ws"
UserCacheDir == "~/.cache/pip-tools"
DevNull == "/dev/null"

\* os.path.join
Join(a, b) == a \o "/" \o b

\* os.path.basename, on the paths of the model
Basename(p) ==
  CASE p = RequirementsTxt -> "requirements.txt"
    [] p = RequirementsLinux -> "requirements_linux.txt"
    [] p = RequirementsDarwin -> "requirements_darwin.txt"
    [] p = RequirementsWindows -> "requirements_windows.txt"
    [] p = RequirementsIn -> "requirements.in"
    [] OTHER -> p

ScratchOut == Join(TestTmpdir, Basename(RequirementsTxt) \o ".out")
TreeTxt == Join(WorkspaceDir, RequirementsTxt)

GoldenPaths == {RequirementsTxt, RequirementsLinux, RequirementsDarwin, RequirementsWindows,
                RequirementsMissing}
CachePaths == {TestTmpdir, UserCacheDir}
Paths == GoldenPaths \cup {RequirementsIn, ResolvedRequirementsIn, ScratchOut, TreeTxt}
           \cup CachePaths

(***************************************************************************)
(* File contents: sequences of characters.  open(..).readlines() reads in  *)
(* text mode with universal newlines: "\r\n" and a lone "\r" become "\n",  *)
(* and every line keeps its "\n" (the last line may have none).            *)
(***************************************************************************)
RECURSIVE UniversalNewlines(_)
UniversalNewlines(c) ==
  IF c = <<>> THEN <<>>
  ELSE IF Head(c) = "\r"
       THEN IF Len(c) > 1 /\ c[2] = "\n"
            THEN <<"\n">> \o UniversalNewlines(Tail(Tail(c)))
            ELSE <<"\n">> \o UniversalNewlines(Tail(c))
       ELSE <<Head(c)>> \o UniversalNewlines(Tail(c))

RECURSIVE SplitLines(_, _)
\* the lines of text t, cur being the line read so far
SplitLines(t, cur) ==
  IF t = <<>> THEN (IF cur = <<>> THEN <<>> ELSE <<cur>>)
  ELSE IF Head(t) = "\n"
       THEN <<Append(cur, "\n")>> \o SplitLines(Tail(t), <<>>)
       ELSE SplitLines(Tail(t), Append(cur, Head(t)))

ReadLines(content) == SplitLines(UniversalNewlines(content), <<>>)

\* the lock files of the model: one pin, the pin with trailing whitespace, the
\* pin with a DOS line end, and a blank line before or after the pin
LockPin == <<"a", "\n">>
LockPinSpace == <<"a", " ", "\n">>
LockPinCRLF == <<"a", "\r", "\n">>
LockBlankPin == <<"\n", "a", "\n">>
LockPinBlank == <<"a", "\n", "\n">>
LockFiles == {LockPin, LockPinSpace, LockPinCRLF, LockBlankPin, LockPinBlank}

(***************************************************************************)
(* The state of one run of the script.                                     *)
(***************************************************************************)
VARIABLES
  pc,        \* where the script is
  argv,      \* sys.argv
  loc,       \* the script's variables
  environ,   \* os.environ
  platform,  \* sys.platform
  linked,    \* whether requirements_txt is a symlink to the source tree's file
  fs,        \* the content of every file, by real path
  stdout,    \* what was printed to the output stream
  stderr,    \* what was printed to the error stream
  atexit,    \* the callbacks registered with atexit, in registration order
  signal,    \* how cli() ended
  e_code,    \* the code of the SystemExit caught at line 150
  exitCode,  \* the status the process exits with (-1 while it runs)
  trace,     \* the steps taken so far
  initial,   \* os.environ and the files as they were when the process started
  probe      \* the call under test, for the functions checked on their own

vars == <<pc, argv, loc, environ, platform, linked, fs, stdout, stderr, atexit,
          signal, e_code, exitCode, trace, initial, probe>>

EnvNames == {"LC_ALL", "LANG", "TEST_TMPDIR", "CUSTOM_COMPILE_COMMAND",
             "PIP_CONFIG_FILE", "BUILD_WORKSPACE_DIRECTORY"}

\* os.getenv(name) or default: an empty value counts as none
GetenvOr(env, name, default) ==
  IF env[name] = Unset \/ env[name] = "" THEN default ELSE env[name]

\* name in os.environ
InEnviron(env, name) == env[name] # Unset

(***************************************************************************)
(* The file system.  requirements_txt is, under Bazel, a symlink into the  *)
(* source tree (linked) or a copy of the tree's file.                      *)
(***************************************************************************)
RealPath(p) == IF linked /\ p = RequirementsTxt THEN TreeTxt ELSE p

Exists(files, p) == files[RealPath(p)] # NoFile

\* os.path.samefile(a, b), defined when both exist
SameFile(a, b) == RealPath(a) = RealPath(b)

\* shutil.copy(src, dst), which raises when src is missing or is dst itself
CanCopy(files, src, dst) == Exists(files, src) /\ ~SameFile(src, dst)
Copy(files, src, dst) == [files EXCEPT ![RealPath(dst)] = files[RealPath(src)]]

WriteFile(files, p, content) == [files EXCEPT ![RealPath(p)] = content]

(***************************************************************************)
(* Lines 51-66 and 77.                                                     *)
(***************************************************************************)
\* line 77 without the sentinel: lambda s: s
parse_str_identity(s) == s

\* parse_str_none = lambda s: None if s == "None" else s
parse_str_none(s) == IF s = "None" THEN PyNone ELSE s

\* lines 58-66 with the platform tests left out: the first override supplied
select_first_supplied(plat, requirements_txt, requirements_linux, requirements_darwin, requirements_windows) ==
  IF requirements_linux # PyNone THEN requirements_linux
  ELSE IF requirements_darwin # PyNone THEN requirements_darwin
  ELSE IF requirements_windows # PyNone THEN requirements_windows
  ELSE requirements_txt

\* sys.platform is the first parameter here
_select_golden_requirements_file(plat, requirements_txt, requirements_linux, requirements_darwin, requirements_windows) ==
  IF plat = "linux" /\ requirements_linux # PyNone THEN requirements_linux
  ELSE IF plat = "darwin" /\ requirements_darwin # PyNone THEN requirements_darwin
  ELSE IF plat = "win32" /\ requirements_windows # PyNone THEN requirements_windows
  ELSE requirements_txt

Platforms == {"linux", "darwin", "win32", "cygwin"}

(***************************************************************************)
(* What cli() may do: pip-compile is outside the repository.  It ends by   *)
(* sys.exit(code) (click's standalone mode), by returning, or by an        *)
(* exception that is not a SystemExit; it may have rewritten its output    *)
(* file before, and it writes its cache.                                   *)
(***************************************************************************)
NoCode == [kind |-> "none", n |-> 0]
IntCode(n) == [kind |-> "int", n |-> n]
ExitCodes == {NoCode} \cup {IntCode(n) : n \in {0, 1, 2, 256}}
\* how a call ended, and what it wrote to its output file (NoFile: nothing)
NotRun == [how |-> "notrun", code |-> NoCode, wrote |-> NoFile]
Signals == {[how |-> "return", code |-> NoCode], [how |-> "raise", code |-> NoCode]}
             \cup {[how |-> "exit", code |-> c] : c \in ExitCodes}

\* the status of a process that ends by SystemExit(code): None is 0, and the
\* operating system keeps the low eight bits of an integer
ExitStatus(code) == IF code.kind = "none" THEN 0 ELSE code.n % 256

\* the value following option opt in sys.argv
RECURSIVE OptionValue(_, _)
OptionValue(args, opt) ==
  IF Len(args) < 2 THEN Unset
  ELSE IF Head(args) = opt THEN args[2]
  ELSE OptionValue(Tail(args), opt)

CacheDir(args) ==
  IF OptionValue(args, "--cache-dir") = Unset THEN UserCacheDir
  ELSE OptionValue(args, "--cache-dir")

(***************************************************************************)
(* The start of a run.                                                     *)
(***************************************************************************)
NoLocals ==
  [requirements_in |-> Unset, requirements_txt |-> Unset,
   requirements_linux |-> Unset, requirements_darwin |-> Unset,
   requirements_windows |-> Unset, update_target_label |-> Unset,
   UPDATE |-> TRUE, requirements_out |-> Unset, update_command |-> Unset,
   golden_filename |-> Unset]

NoProbe == [fn |-> "none"]

\* the positional arguments the Bazel rule passes, for one choice of overrides
FullArgs(lin, dar, win) ==
  <<RequirementsIn, RequirementsTxt, lin, dar, win, UpdateTargetLabel>>

\* the overrides a run is given: none, one that may or may not be the host's,
\* all three, and one that names a file that does not exist
OverrideChoices ==
  {<<"None", "None", "None">>,
   <<RequirementsLinux, "None", "None">>,
   <<"None", "None", RequirementsWindows>>,
   <<RequirementsLinux, RequirementsDarwin, RequirementsWindows>>,
   <<"None", RequirementsMissing, "None">>}

\* sys.argv: the script and a prefix of the positional arguments
Argvs ==
  {<<"dependency_resolver.py">> \o SubSeq(FullArgs(o[1], o[2], o[3]), 1, n) :
     o \in OverrideChoices, n \in 0..6}

\* the caller's environment: nothing set, everything the script reads set,
\* or set to the empty string
CallerEnvs ==
  {[LC_ALL |-> Unset, LANG |-> Unset, CUSTOM_COMPILE_COMMAND |-> Unset,
    PIP_CONFIG_FILE |-> Unset],
   [LC_ALL |-> "POSIX", LANG |-> "en_US.ISO-8859-1",
    CUSTOM_COMPILE_COMMAND |-> "make lock", PIP_CONFIG_FILE |-> "pip.conf"],
   [LC_ALL |-> "", LANG |-> "", CUSTOM_COMPILE_COMMAND |-> "",
    PIP_CONFIG_FILE |-> ""]}

Environ(caller, tmpdir, workspace) ==
  [name \in EnvNames |->
     CASE name = "TEST_TMPDIR" -> tmpdir
       [] name = "BUILD_WORKSPACE_DIRECTORY" -> workspace
       [] OTHER -> caller[name]]

\* the files: the platform lock files are committed, the lock file itself and
\* its copy in the source tree may be missing, the scratch file does not exist
Files(isLinked, txt, tree, reqIn) ==
  [p \in Paths |->
     CASE p = RequirementsTxt -> IF isLinked THEN NoFile ELSE txt
       [] p = TreeTxt -> IF isLinked THEN txt ELSE tree
       [] p = RequirementsLinux -> LockPin
       [] p = RequirementsDarwin -> LockPinSpace
       [] p = RequirementsWindows -> LockPinCRLF
       [] p = RequirementsIn -> reqIn
       [] p = ResolvedRequirementsIn -> <<"a">>
       [] OTHER -> NoFile]

InitRun(argvs, callers, txts) ==
  /\ pc = "start"
  /\ argv \in argvs
  /\ loc = NoLocals
  /\ platform \in Platforms
  /\ linked \in BOOLEAN
  /\ \E caller \in callers, tmpdir \in {Unset, TestTmpdir},
        workspace \in {Unset, WorkspaceDir} :
       environ = Environ(caller, tmpdir, workspace)
  /\ \E txt \in txts, tree \in {NoFile, LockPinBlank}, reqIn \in {NoFile, <<"a">>} :
       fs = Files(linked, txt, tree, reqIn)
  /\ stdout = <<>>
  /\ stderr = <<>>
  /\ atexit = <<>>
  /\ signal = NotRun
  /\ e_code = NoCode
  /\ exitCode = -1
  /\ trace = <<>>
  /\ initial = [environ |-> environ, fs |-> fs, argv |-> argv]
  /\ probe = NoProbe

Init == InitRun(Argvs, CallerEnvs, {NoFile, LockPin, LockBlankPin})

\* one print to a stream: which message, and the value it names
Msg(tag, text) == [tag |-> tag, text |-> text, diff |-> <<>>]

(***************************************************************************)
(* Leaving the script.                                                     *)
(***************************************************************************)
\* sys.exit(status) outside any try, or the end of the script
SysExit(status) ==
  /\ pc' = "exiting"
  /\ exitCode' = status

\* an exception nothing catches: the interpreter prints the traceback and the
\* process ends with status 1
Uncaught(exception) ==
  /\ stderr' = Append(stderr, Msg("traceback", exception))
  /\ SysExit(1)

Step(label) == trace' = Append(trace, label)

(***************************************************************************)
(* Lines 70-89: the arguments.                                             *)
(***************************************************************************)
\* lines 70-75
ArgCountError ==
  /\ pc = "start"
  /\ Len(argv) < 4
  /\ stderr' = Append(stderr, Msg("usage", "Expected at least two arguments: requirements_in requirements_out"))
  /\ SysExit(1)
  /\ Step("ArgCountError")
  /\ UNCHANGED <<argv, loc, environ, platform, linked, fs, stdout, atexit, signal,
                 e_code, initial, probe>>

\* lines 77-84 with fewer than six arguments after the script's name: the
\* arguments that are there are popped and assigned, and the next
\* sys.argv.pop(1) raises IndexError
ParseArgsIndexError ==
  /\ pc = "start"
  /\ Len(argv) >= 4
  /\ Len(argv) < 7
  /\ LET popped(k) == IF k <= Len(argv) THEN argv[k] ELSE Unset
     IN  loc' = [loc EXCEPT !.requirements_in = popped(2),
                           !.requirements_txt = popped(3),
                           !.requirements_linux = parse_str_none(popped(4)),
                           !.requirements_darwin = parse_str_none(popped(5)),
                           !.requirements_windows = parse_str_none(popped(6))]
  /\ argv' = <<argv[1]>>
  /\ Uncaught("IndexError")
  /\ Step("ParseArgsIndexError")
  /\ UNCHANGED <<environ, platform, linked, fs, stdout, atexit, signal,
                 e_code, initial, probe>>

\* lines 77-89
ParseArgs ==
  /\ pc = "start"
  /\ Len(argv) >= 7
  /\ loc' = [loc EXCEPT !.requirements_in = argv[2],
                        !.requirements_txt = argv[3],
                        !.requirements_linux = parse_str_none(argv[4]),
                        !.requirements_darwin = parse_str_none(argv[5]),
                        !.requirements_windows = parse_str_none(argv[6]),
                        !.update_target_label = argv[7]]
  /\ argv' = <<argv[1]>> \o SubSeq(argv, 8, Len(argv))
  /\ pc' = "locale"
  /\ Step("ParseArgs")
  /\ UNCHANGED <<environ, platform, linked, fs, stdout, stderr, atexit, signal,
                 e_code, exitCode, initial, probe>>

(***************************************************************************)
(* Lines 96-128: the environment and the resolver's arguments.             *)
(***************************************************************************)
\* lines 96-97 as os.environ.setdefault: a locale the caller set is kept
SetLocaleDefault ==
  /\ pc = "locale"
  /\ environ' = [environ EXCEPT
                   !["LC_ALL"] = IF @ = Unset THEN "C.UTF-8" ELSE @,
                   !["LANG"] = IF @ = Unset THEN "C.UTF-8" ELSE @]
  /\ pc' = "mode"
  /\ Step("SetLocale")
  /\ UNCHANGED <<argv, loc, platform, linked, fs, stdout, stderr, atexit, signal,
                 e_code, exitCode, initial, probe>>

\* lines 96-97
SetLocale ==
  /\ pc = "locale"
  /\ environ' = [environ EXCEPT !["LC_ALL"] = "C.UTF-8", !["LANG"] = "C.UTF-8"]
  /\ pc' = "mode"
  /\ Step("SetLocale")
  /\ UNCHANGED <<argv, loc, platform, linked, fs, stdout, stderr, atexit, signal,
                 e_code, exitCode, initial, probe>>

\* line 110-112
RequirementsOut(tmpdir, requirements_txt) ==
  Join(tmpdir, Basename(requirements_txt) \o ".out")

\* lines 99-102 without TEST_TMPDIR
SelectUpdate ==
  /\ pc = "mode"
  /\ ~InEnviron(environ, "TEST_TMPDIR")
  /\ loc' = [loc EXCEPT !.UPDATE = TRUE]
  /\ pc' = "configure"
  /\ Step("SelectUpdate")
  /\ UNCHANGED <<argv, environ, platform, linked, fs, stdout, stderr, atexit,
                 signal, e_code, exitCode, initial, probe>>

\* lines 99-115 with the scratch copy seeded from the golden file of the host
\* platform instead of requirements_txt
SelectCheckSeedsGolden ==
  /\ pc = "mode"
  /\ InEnviron(environ, "TEST_TMPDIR")
  /\ LET out == RequirementsOut(environ["TEST_TMPDIR"], loc.requirements_txt)
         seed == _select_golden_requirements_file(platform, loc.requirements_txt,
                    loc.requirements_linux, loc.requirements_darwin,
                    loc.requirements_windows)
     IN  /\ loc' = [loc EXCEPT !.UPDATE = FALSE, !.requirements_out = out]
         /\ argv' = argv \o <<"--cache-dir", environ["TEST_TMPDIR"]>>
         /\ IF CanCopy(fs, seed, out)
            THEN /\ fs' = Copy(fs, seed, out)
                 /\ pc' = "configure"
                 /\ UNCHANGED <<stderr, exitCode>>
            ELSE /\ Uncaught("FileNotFoundError")
                 /\ UNCHANGED fs
  /\ Step("SelectCheck")
  /\ UNCHANGED <<environ, platform, linked, stdout, atexit, signal, e_code,
                 initial, probe>>

\* lines 99-115 with line 102 left out: UPDATE stays True under TEST_TMPDIR
SelectCheckKeepsUpdate ==
  /\ pc = "mode"
  /\ InEnviron(environ, "TEST_TMPDIR")
  /\ LET out == RequirementsOut(environ["TEST_TMPDIR"], loc.requirements_txt)
     IN  /\ loc' = [loc EXCEPT !.UPDATE = TRUE, !.requirements_out = out]
         /\ argv' = argv \o <<"--cache-dir", environ["TEST_TMPDIR"]>>
         /\ IF CanCopy(fs, loc.requirements_txt, out)
            THEN /\ fs' = Copy(fs, loc.requirements_txt, out)
                 /\ pc' = "configure"
                 /\ UNCHANGED <<stderr, exitCode>>
            ELSE /\ Uncaught("FileNotFoundError")
                 /\ UNCHANGED fs
  /\ Step("SelectCheck")
  /\ UNCHANGED <<environ, platform, linked, stdout, atexit, signal, e_code,
                 initial, probe>>

\* lines 99-115 with TEST_TMPDIR: the scratch copy is seeded from requirements_txt
SelectCheck ==
  /\ pc = "mode"
  /\ InEnviron(environ, "TEST_TMPDIR")
  /\ LET out == RequirementsOut(environ["TEST_TMPDIR"], loc.requirements_txt)
     IN  /\ loc' = [loc EXCEPT !.UPDATE = FALSE, !.requirements_out = out]
         /\ argv' = argv \o <<"--cache-dir", environ["TEST_TMPDIR"]>>
         /\ IF CanCopy(fs, loc.requirements_txt, out)
            THEN /\ fs' = Copy(fs, loc.requirements_txt, out)
                 /\ pc' = "configure"
                 /\ UNCHANGED <<stderr, exitCode>>
            ELSE /\ Uncaught("FileNotFoundError")
                 /\ UNCHANGED fs
  /\ Step("SelectCheck")
  /\ UNCHANGED <<environ, platform, linked, stdout, atexit, signal, e_code,
                 initial, probe>>

\* lines 117-119 without the caller's CUSTOM_COMPILE_COMMAND
UpdateCommandDerived(env, update_target_label) ==
  "bazel run " \o update_target_label

\* lines 117-119
UpdateCommand(env, update_target_label) ==
  GetenvOr(env, "CUSTOM_COMPILE_COMMAND", "bazel run " \o update_target_label)

\* line 125 with the mode forgotten: the committed path in both modes
OutputFileCommitted(UPDATE, requirements_txt, requirements_out) == requirements_txt

\* line 125
OutputFile(UPDATE, requirements_txt, requirements_out) ==
  IF UPDATE THEN requirements_txt ELSE requirements_out

\* lines 117-128
Configure ==
  /\ pc = "configure"
  /\ LET update_command == UpdateCommand(environ, loc.update_target_label)
     IN  /\ loc' = [loc EXCEPT !.update_command = update_command]
         /\ environ' = [environ EXCEPT
                          !["CUSTOM_COMPILE_COMMAND"] = update_command,
                          !["PIP_CONFIG_FILE"] = GetenvOr(environ, "PIP_CONFIG_FILE", DevNull)]
  /\ argv' = argv \o <<"--output-file",
                       OutputFile(loc.UPDATE, loc.requirements_txt, loc.requirements_out),
                       IF Exists(fs, loc.requirements_in) THEN loc.requirements_in
                       ELSE ResolvedRequirementsIn>>
  /\ pc' = IF loc.UPDATE THEN "update" ELSE "check"
  /\ Step("Configure")
  /\ UNCHANGED <<platform, linked, fs, stdout, stderr, atexit, signal, e_code,
                 exitCode, initial, probe>>

(***************************************************************************)
(* Line 171: difflib.unified_diff(golden, out), on lists of lines.         *)
(* SequenceMatcher takes the longest block of equal lines (the earliest in *)
(* golden, then the earliest in out), and matches what is left of it and   *)
(* right of it in the same way.  Each line is given with its prefix; the   *)
(* line ranges of the "@@" header are left out.                            *)
(***************************************************************************)
\* the lines of context unified_diff keeps around a change (its default n)
ContextLines == 3

RECURSIVE MatchLen(_, _, _, _, _, _)
\* how many lines from a[i] on equal those from b[j] on, below ahi and bhi
MatchLen(a, b, i, j, ahi, bhi) ==
  IF i < ahi /\ j < bhi /\ a[i] = b[j]
  THEN 1 + MatchLen(a, b, i + 1, j + 1, ahi, bhi)
  ELSE 0

Max(S) == CHOOSE x \in S : \A y \in S : y <= x
Min(S) == CHOOSE x \in S : \A y \in S : x <= y

\* SequenceMatcher.find_longest_match: <<i, j, k>> with a[i..i+k-1] = b[j..j+k-1]
FindLongestMatch(a, b, alo, ahi, blo, bhi) ==
  LET at == {<<i, j>> : i \in alo..(ahi - 1), j \in blo..(bhi - 1)}
      k == Max({0} \cup {MatchLen(a, b, ij[1], ij[2], ahi, bhi) : ij \in at})
  IN  IF k = 0 THEN <<alo, blo, 0>>
      ELSE LET i == Min({ij[1] : ij \in {x \in at : MatchLen(a, b, x[1], x[2], ahi, bhi) = k}})
               j == Min({jj \in blo..(bhi - 1) : MatchLen(a, b, i, jj, ahi, bhi) = k})
           IN  <<i, j, k>>

Prefixed(prefix, lines, lo, hi) == [i \in 1..(hi - lo) |-> <<prefix>> \o lines[lo + i - 1]]

RECURSIVE DiffLines(_, _, _, _, _, _)
\* the lines of the opcodes of a[alo..ahi-1] against b[blo..bhi-1]
DiffLines(a, b, alo, ahi, blo, bhi) ==
  LET m == FindLongestMatch(a, b, alo, ahi, blo, bhi)
  IN  IF m[3] = 0
      THEN Prefixed("-", a, alo, ahi) \o Prefixed("+", b, blo, bhi)
      ELSE DiffLines(a, b, alo, m[1], blo, m[2])
             \o Prefixed(" ", a, m[1], m[1] + m[3])
             \o DiffLines(a, b, m[1] + m[3], ahi, m[2] + m[3], bhi)

RECURSIVE LeadingContext(_)
\* how many lines at the start of the diff are context
LeadingContext(d) ==
  IF d # <<>> /\ Head(d)[1] = " " THEN 1 + LeadingContext(Tail(d)) ELSE 0

Reverse(s) == [i \in 1..Len(s) |-> s[Len(s) + 1 - i]]

\* get_grouped_opcodes: no more than ContextLines lines before the first change
\* and after the last
TrimContext(d) ==
  LET lead == LeadingContext(d)
      trail == LeadingContext(Reverse(d))
      from == IF lead > ContextLines THEN lead - ContextLines + 1 ELSE 1
      to == IF trail > ContextLines THEN Len(d) - trail + ContextLines ELSE Len(d)
  IN  SubSeq(d, from, to)

UnifiedDiff(a, b) ==
  IF a = b THEN <<>>
  ELSE <<<<"-", "-", "-", " ", "\n">>, <<"+", "+", "+", " ", "\n">>, <<"@", "@", "\n">>>>
         \o TrimContext(DiffLines(a, b, 1, Len(a) + 1, 1, Len(b) + 1))

\* line 168 comparing only the number of lines
LinesDifferInNumber(golden, out) == Len(golden) # Len(out)

\* line 168: golden != out
LinesDiffer(golden, out) == golden # out

(***************************************************************************)
(* Lines 130-142: UPDATE.                                                  *)
(***************************************************************************)
\* line 138 left out: the copy-back is registered whenever the marker is set
CopyBackAlways(requirements_txt, requirements_txt_tree) == TRUE

\* line 138 with the "not" left out
CopyBackIfSameFile(requirements_txt, requirements_txt_tree) ==
  SameFile(requirements_txt, requirements_txt_tree)

\* line 138: not os.path.samefile(requirements_txt, requirements_txt_tree)
CopyBackNeeded(requirements_txt, requirements_txt_tree) ==
  ~SameFile(requirements_txt, requirements_txt_tree)

\* lines 130-141; os.path.samefile raises when either file is missing
UpdateBranch ==
  /\ pc = "update"
  /\ stdout' = Append(stdout, Msg("Updating", loc.requirements_txt))
  /\ IF InEnviron(environ, "BUILD_WORKSPACE_DIRECTORY")
     THEN LET requirements_txt_tree ==
                Join(environ["BUILD_WORKSPACE_DIRECTORY"], loc.requirements_txt)
          IN  IF Exists(fs, loc.requirements_txt) /\ Exists(fs, requirements_txt_tree)
              THEN /\ atexit' =
                        IF CopyBackNeeded(loc.requirements_txt, requirements_txt_tree)
                        THEN Append(atexit, [src |-> loc.requirements_txt,
                                             dst |-> requirements_txt_tree])
                        ELSE atexit
                   /\ pc' = "cli"
                   /\ UNCHANGED <<stderr, exitCode>>
              ELSE /\ Uncaught("FileNotFoundError")
                   /\ UNCHANGED atexit
     ELSE /\ pc' = "cli"
          /\ UNCHANGED <<atexit, stderr, exitCode>>
  /\ Step("UpdateBranch")
  /\ UNCHANGED <<argv, loc, environ, platform, linked, fs, signal, e_code,
                 initial, probe>>

\* lines 142 and 147 with one retry: cli() is called again when its first call
\* raised an exception that is not a SystemExit
CliRetry ==
  /\ pc = "cli"
  /\ \E how \in Signals, written \in LockFiles \cup {NoFile} :
       /\ signal' = [how |-> how.how, code |-> how.code, wrote |-> written]
       /\ LET cached == WriteFile(fs, CacheDir(argv), <<"c">>)
          IN  fs' = IF written = NoFile THEN cached
                    ELSE WriteFile(cached, OptionValue(argv, "--output-file"), written)
       /\ pc' = IF how.how = "raise" /\ signal.how = "notrun" THEN "cli"
                ELSE IF loc.UPDATE THEN "updated" ELSE "checked"
  /\ Step("Cli")
  /\ UNCHANGED <<argv, loc, environ, platform, linked, stdout, stderr, atexit,
                 e_code, exitCode, initial, probe>>

\* line 142 and line 147: cli(), which writes its cache, may rewrite the file
\* named by --output-file, and ends in one of the ways of Signals
Cli ==
  /\ pc = "cli"
  /\ \E how \in Signals, written \in LockFiles \cup {NoFile} :
       /\ signal' = [how |-> how.how, code |-> how.code, wrote |-> written]
       /\ LET cached == WriteFile(fs, CacheDir(argv), <<"c">>)
          IN  fs' = IF written = NoFile THEN cached
                    ELSE WriteFile(cached, OptionValue(argv, "--output-file"), written)
  /\ pc' = IF loc.UPDATE THEN "updated" ELSE "checked"
  /\ Step("Cli")
  /\ UNCHANGED <<argv, loc, environ, platform, linked, stdout, stderr, atexit,
                 e_code, exitCode, initial, probe>>

\* line 142, cli() returned: the script ends
UpdateReturn ==
  /\ pc = "updated"
  /\ signal.how = "return"
  /\ SysExit(0)
  /\ Step("UpdateReturn")
  /\ UNCHANGED <<argv, loc, environ, platform, linked, fs, stdout, stderr, atexit,
                 signal, e_code, initial, probe>>

\* line 142 as if UPDATE mapped every SystemExit to status 1
UpdateSystemExitOne ==
  /\ pc = "updated"
  /\ signal.how = "exit"
  /\ SysExit(1)
  /\ Step("UpdateSystemExit")
  /\ UNCHANGED <<argv, loc, environ, platform, linked, fs, stdout, stderr, atexit,
                 signal, e_code, initial, probe>>

\* line 142, cli() raised SystemExit: nothing catches it
UpdateSystemExit ==
  /\ pc = "updated"
  /\ signal.how = "exit"
  /\ SysExit(ExitStatus(signal.code))
  /\ Step("UpdateSystemExit")
  /\ UNCHANGED <<argv, loc, environ, platform, linked, fs, stdout, stderr, atexit,
                 signal, e_code, initial, probe>>

\* line 142, cli() raised another exception
UpdateRaise ==
  /\ pc = "updated"
  /\ signal.how = "raise"
  /\ Uncaught("Exception")
  /\ Step("UpdateRaise")
  /\ UNCHANGED <<argv, loc, environ, platform, linked, fs, stdout, atexit,
                 signal, e_code, initial, probe>>

(***************************************************************************)
(* Lines 143-185: CHECK.                                                   *)
(***************************************************************************)
\* line 146
CheckBranch ==
  /\ pc = "check"
  /\ stdout' = Append(stdout, Msg("Checking", loc.requirements_txt))
  /\ pc' = "cli"
  /\ Step("CheckBranch")
  /\ UNCHANGED <<argv, loc, environ, platform, linked, fs, stderr, atexit, signal,
                 e_code, exitCode, initial, probe>>

\* line 149 as sys.exit(0): a return of cli() is taken for its success
CheckReturnZero ==
  /\ pc = "checked"
  /\ signal.how = "return"
  /\ stderr' = Append(stderr, Msg("should_exit", "cli() should exit"))
  /\ e_code' = IntCode(0)
  /\ pc' = "except"
  /\ Step("CheckReturn")
  /\ UNCHANGED <<argv, loc, environ, platform, linked, fs, stdout, atexit, signal,
                 exitCode, initial, probe>>

\* lines 148-150, cli() returned: sys.exit(1) is raised inside the try and
\* caught by the except below it
CheckReturn ==
  /\ pc = "checked"
  /\ signal.how = "return"
  /\ stderr' = Append(stderr, Msg("should_exit", "cli() should exit"))
  /\ e_code' = IntCode(1)
  /\ pc' = "except"
  /\ Step("CheckReturn")
  /\ UNCHANGED <<argv, loc, environ, platform, linked, fs, stdout, atexit, signal,
                 exitCode, initial, probe>>

\* line 150, cli() raised SystemExit
CheckSystemExit ==
  /\ pc = "checked"
  /\ signal.how = "exit"
  /\ e_code' = signal.code
  /\ pc' = "except"
  /\ Step("CheckSystemExit")
  /\ UNCHANGED <<argv, loc, environ, platform, linked, fs, stdout, stderr, atexit,
                 signal, exitCode, initial, probe>>

\* line 147, cli() raised another exception: except SystemExit lets it pass
CheckRaise ==
  /\ pc = "checked"
  /\ signal.how = "raise"
  /\ Uncaught("Exception")
  /\ Step("CheckRaise")
  /\ UNCHANGED <<argv, loc, environ, platform, linked, fs, stdout, atexit,
                 signal, e_code, initial, probe>>

\* lines 151, 159, 180 with success tested as "not e.code"
ClassifyFalsy(code) ==
  IF code.kind = "int" /\ code.n = 2 THEN "conflict"
  ELSE IF code.kind = "none" \/ code.n = 0 THEN "success"
  ELSE "unexpected"

\* lines 151, 159, 180: which branch of the except clause a code takes
Classify(code) ==
  IF code.kind = "int" /\ code.n = 2 THEN "conflict"
  ELSE IF code.kind = "int" /\ code.n = 0 THEN "success"
  ELSE "unexpected"

\* str(e.code) in the message of line 182
CodeText(code) ==
  IF code.kind = "none" THEN "None" ELSE ToString(code.n)

\* lines 151-158
ConflictBranch ==
  /\ pc = "except"
  /\ Classify(e_code) = "conflict"
  /\ stderr' = Append(stderr, Msg("conflict", loc.requirements_in))
  /\ SysExit(1)
  /\ Step("ConflictBranch")
  /\ UNCHANGED <<argv, loc, environ, platform, linked, fs, stdout, atexit, signal,
                 e_code, initial, probe>>

\* lines 159-165
SelectGolden ==
  /\ pc = "except"
  /\ Classify(e_code) = "success"
  /\ loc' = [loc EXCEPT !.golden_filename =
               _select_golden_requirements_file(platform, loc.requirements_txt,
                  loc.requirements_linux, loc.requirements_darwin,
                  loc.requirements_windows)]
  /\ pc' = "compare"
  /\ Step("SelectGolden")
  /\ UNCHANGED <<argv, environ, platform, linked, fs, stdout, stderr, atexit,
                 signal, e_code, exitCode, initial, probe>>

\* lines 166-179; open() raises when the file is missing
Compare ==
  /\ pc = "compare"
  /\ IF Exists(fs, loc.golden_filename) /\ Exists(fs, loc.requirements_out)
     THEN LET golden == ReadLines(fs[RealPath(loc.golden_filename)])
              out == ReadLines(fs[RealPath(loc.requirements_out)])
          IN  IF LinesDiffer(golden, out)
              THEN /\ stderr' = stderr \o
                        <<[Msg("diff", "") EXCEPT !.diff = UnifiedDiff(golden, out)],
                          Msg("stale", loc.update_command)>>
                   /\ SysExit(1)
              ELSE /\ SysExit(0)
                   /\ UNCHANGED stderr
     ELSE Uncaught("FileNotFoundError")
  /\ Step("Compare")
  /\ UNCHANGED <<argv, loc, environ, platform, linked, fs, stdout, atexit, signal,
                 e_code, initial, probe>>

\* lines 180-185
UnexpectedBranch ==
  /\ pc = "except"
  /\ Classify(e_code) = "unexpected"
  /\ stderr' = Append(stderr, Msg("unexpected", CodeText(e_code)))
  /\ SysExit(1)
  /\ Step("UnexpectedBranch")
  /\ UNCHANGED <<argv, loc, environ, platform, linked, fs, stdout, atexit, signal,
                 e_code, initial, probe>>

(***************************************************************************)
(* The end of the process: the atexit callbacks run, last registered       *)
(* first, and the process exits with the status it was leaving with.       *)
(***************************************************************************)
\* line 140, the registered lambda: shutil.copy(requirements_txt, requirements_txt_tree).
\* An exception in a callback is printed and changes nothing else.
RunAtexit ==
  /\ pc = "exiting"
  /\ atexit # <<>>
  /\ LET callback == atexit[Len(atexit)]
     IN  IF CanCopy(fs, callback.src, callback.dst)
         THEN /\ fs' = Copy(fs, callback.src, callback.dst)
              /\ UNCHANGED stderr
         ELSE /\ stderr' = Append(stderr, Msg("traceback", "atexit"))
              /\ UNCHANGED fs
  /\ atexit' = SubSeq(atexit, 1, Len(atexit) - 1)
  /\ Step("RunAtexit")
  /\ UNCHANGED <<pc, argv, loc, environ, platform, linked, stdout, signal, e_code,
                 exitCode, initial, probe>>

Terminate ==
  /\ pc = "exiting"
  /\ atexit = <<>>
  /\ pc' = "done"
  /\ Step("Terminate")
  /\ UNCHANGED <<argv, loc, environ, platform, linked, fs, stdout, stderr, atexit,
                 signal, e_code, exitCode, initial, probe>>

Next ==
  \/ ArgCountError
  \/ ParseArgsIndexError
  \/ ParseArgs
  \/ SetLocale
  \/ SelectUpdate
  \/ SelectCheck
  \/ Configure
  \/ UpdateBranch
  \/ CheckBranch
  \/ Cli
  \/ UpdateReturn
  \/ UpdateSystemExit
  \/ UpdateRaise
  \/ CheckReturn
  \/ CheckSystemExit
  \/ CheckRaise
  \/ ConflictBranch
  \/ SelectGolden
  \/ Compare
  \/ UnexpectedBranch
  \/ RunAtexit
  \/ Terminate

Spec == Init /\ [][Next]_vars

(***************************************************************************)
(* Lines 33-48: the annotation formatters that replace pip-tools' own.     *)
(* Each normalizes the collection it is given and hands the result to the  *)
(* original formatter, whose return value it returns.                      *)
(***************************************************************************)
\* v.replace("\\", "/", 1): only the first separator
ReplaceFirstBackslash(v) ==
  [i \in DOMAIN v |->
     IF v[i] = "\\" /\ \A j \in 1..(i - 1) : v[j] # "\\" THEN "/" ELSE v[i]]

\* v.replace("\\", "/")
ReplaceBackslash(v) == [i \in DOMAIN v |-> IF v[i] = "\\" THEN "/" ELSE v[i]]

\* line 38: what annotation_style_split hands to original_annotation_style_split
annotation_style_split(required_by) ==
  {ReplaceBackslash(v) : v \in required_by}

\* line 43 without the normalization: set(required_by)
annotation_style_line_raw(required_by) == required_by

\* line 43: what annotation_style_line hands to original_annotation_style_line
annotation_style_line(required_by) ==
  {ReplaceBackslash(v) : v \in required_by}

\* the characters of a provenance string, and the strings
PathChars == {"A", "\\", "/"}
ProvenanceStrings == SeqsUpTo(PathChars, MaxStrLen)

RECURSIVE SubsetsUpTo(_, _)
\* the subsets of S of at most n elements
SubsetsUpTo(S, n) ==
  IF n = 0 THEN {{}}
  ELSE LET smaller == SubsetsUpTo(S, n - 1)
       IN  smaller \cup {T \cup {x} : T \in smaller, x \in S}

\* the collections a formatter is called with: pip-tools passes a set of strings
RequiredBys == SubsetsUpTo(ProvenanceStrings, MaxEntries)

\* nothing of a run happens while a function is checked on its own
NoRun ==
  /\ pc = "none"
  /\ argv = <<>>
  /\ loc = NoLocals
  /\ environ = Environ([LC_ALL |-> Unset, LANG |-> Unset,
                        CUSTOM_COMPILE_COMMAND |-> Unset, PIP_CONFIG_FILE |-> Unset],
                       Unset, Unset)
  /\ platform = "linux"
  /\ linked = FALSE
  /\ fs = Files(FALSE, NoFile, NoFile, NoFile)
  /\ stdout = <<>>
  /\ stderr = <<>>
  /\ atexit = <<>>
  /\ signal = NotRun
  /\ e_code = NoCode
  /\ exitCode = -1
  /\ trace = <<>>
  /\ initial = [environ |-> environ, fs |-> fs, argv |-> argv]

runVars == <<pc, argv, loc, environ, platform, linked, fs, stdout, stderr, atexit,
             signal, e_code, exitCode, trace, initial>>

\* pip-tools' writer calls one of the two formatters with a collection, and
\* may call it again with what the first call handed over; calls records each
\* call's argument and what it handed to the original formatter
InitWriter ==
  /\ NoRun
  /\ \E style \in {"split", "line"}, required_by \in RequiredBys :
       probe = [fn |-> style, required_by |-> required_by, calls |-> <<>>]

CallSplit ==
  /\ probe.fn = "split"
  /\ Len(probe.calls) < 2
  /\ probe' = [probe EXCEPT !.calls =
                 Append(@, [required_by |-> probe.required_by,
                            handed |-> annotation_style_split(probe.required_by)])]
  /\ UNCHANGED runVars

CallLine ==
  /\ probe.fn = "line"
  /\ Len(probe.calls) < 2
  /\ probe' = [probe EXCEPT !.calls =
                 Append(@, [required_by |-> probe.required_by,
                            handed |-> annotation_style_line(probe.required_by)])]
  /\ UNCHANGED runVars

\* the collection handed over by the last call becomes the next call's argument
Reiterate ==
  /\ probe.fn \in {"split", "line"}
  /\ Len(probe.calls) = 1
  /\ probe' = [probe EXCEPT !.required_by = probe.calls[1].handed]
  /\ UNCHANGED runVars

NextWriter == CallSplit \/ CallLine \/ Reiterate

SpecWriter == InitWriter /\ [][NextWriter]_vars

(***************************************************************************)
(* Lines 51-66 and 77-83 on their own: the golden file chosen for a host   *)
(* platform, a base path and three override arguments, each a path, the    *)
(* string "None", or None itself (no override supplied).                   *)
(***************************************************************************)
BasePaths == {RequirementsTxt, "requirements_lock.txt"}
OverrideArgs(path) == {path, "None", PyNone}

InitSelector ==
  /\ NoRun
  /\ \E plat \in Platforms, base \in BasePaths,
        lin \in OverrideArgs(RequirementsLinux),
        dar \in OverrideArgs(RequirementsDarwin),
        win \in OverrideArgs(RequirementsWindows) :
       probe = [fn |-> "select", plat |-> plat, base |-> base, lin |-> lin,
                dar |-> dar, win |-> win, golden |-> Unset]

CallSelector ==
  /\ probe.fn = "select"
  /\ probe.golden = Unset
  /\ probe' = [probe EXCEPT !.golden =
                 _select_golden_requirements_file(probe.plat, probe.base,
                    parse_str_none(probe.lin), parse_str_none(probe.dar),
                    parse_str_none(probe.win))]
  /\ UNCHANGED runVars

NextSelector == CallSelector

SpecSelector == InitSelector /\ [][NextSelector]_vars

(***************************************************************************)
(* What the claims speak of.                                               *)
(***************************************************************************)
Done == pc = "done"
\* the mode of the run, as the caller's environment decides it
CheckMode == InEnviron(initial.environ, "TEST_TMPDIR")
\* the caller gave all six positional arguments
Validated == Len(initial.argv) >= 7
ErrTags == {stderr[i].tag : i \in DOMAIN stderr}
Took(step) == Count(trace, step)

(***************************************************************************)
(* C1.  In CHECK mode (TEST_TMPDIR set) no file but the scratch copy and   *)
(* the resolver's cache ever differs from what it was when the process     *)
(* started: the committed lock file, its copy in the source tree and every *)
(* platform lock file keep their bytes, however cli() ends and whatever    *)
(* the comparison finds.                                                   *)
(***************************************************************************)
C1_CheckLeavesCommittedFiles ==
  CheckMode => \A p \in Paths \ {ScratchOut, TestTmpdir} : fs[p] = initial.fs[p]

\* a CHECK run that ended Stale after the resolver rewrote the scratch copy
C1_Witness ==
  /\ Done
  /\ CheckMode
  /\ signal.wrote # NoFile
  /\ fs[ScratchOut] = signal.wrote
  /\ fs[ScratchOut] # fs[RealPath(RequirementsTxt)]
  /\ "stale" \in ErrTags

(***************************************************************************)
(* C2.  As claimed: every run ends with exit code 0 or 1, and a resolver   *)
(* that terminates with a non-zero code makes the run exit with 1, in      *)
(* UPDATE as in CHECK.                                                     *)
(***************************************************************************)
C2_ExitCodeZeroOrOne ==
  Done =>
    /\ exitCode \in {0, 1}
    /\ (signal.how = "exit" /\ signal.code.kind = "int" /\ signal.code.n # 0)
         => exitCode = 1

\* the run found the scratch output equal, line for line, to the golden file
Verified ==
  /\ signal.how = "exit"
  /\ signal.code = IntCode(0)
  /\ Took("Compare") = 1
  /\ Exists(fs, loc.golden_filename)
  /\ ReadLines(fs[RealPath(loc.golden_filename)]) = ReadLines(fs[ScratchOut])

(***************************************************************************)
(* C2, amended.  A run with too few arguments exits with 1.  A CHECK run   *)
(* exits with 0 or 1, and with 0 exactly when it is Verified.  An UPDATE   *)
(* run exits with the status of cli()'s own termination: 0 when it         *)
(* returns, the low eight bits of the code when it raises SystemExit (0    *)
(* for no code, 2 for code 2), 1 when it raises another exception or when  *)
(* cli() is never reached.                                                 *)
(***************************************************************************)
C2_ExitCodeByMode ==
  Done =>
    /\ ~Validated => exitCode = 1
    /\ (Validated /\ CheckMode) =>
         /\ exitCode \in {0, 1}
         /\ exitCode = 0 <=> Verified
    /\ (Validated /\ ~CheckMode) =>
         exitCode = CASE signal.how = "return" -> 0
                      [] signal.how = "exit" /\ signal.code.kind = "none" -> 0
                      [] signal.how = "exit" /\ signal.code.kind = "int" -> signal.code.n % 256
                      [] OTHER -> 1

\* an UPDATE run whose resolver exits with 2 exits with 2
C2_Witness ==
  /\ Done
  /\ ~CheckMode
  /\ signal.how = "exit"
  /\ signal.code = IntCode(2)
  /\ exitCode = 2

(***************************************************************************)
(* C3.  As claimed: whenever the resolver raises a termination code, code  *)
(* 2 yields ResolutionConflict (its message, exit 1), a code other than 0  *)
(* and 2 yields UnexpectedFailure (its message, exit 1), and code 0 yields *)
(* neither.                                                                *)
(***************************************************************************)
C3_CodeDecidesOutcome ==
  (Done /\ signal.how = "exit") =>
    /\ signal.code = IntCode(2) => ("conflict" \in ErrTags /\ exitCode = 1)
    /\ signal.code \notin {IntCode(0), IntCode(2)}
         => ("unexpected" \in ErrTags /\ exitCode = 1)
    /\ signal.code = IntCode(0) => ErrTags \cap {"conflict", "unexpected"} = {}

(***************************************************************************)
(* C3, amended.  In CHECK mode, whenever the resolver raises a termination *)
(* code: the run goes on to the comparison exactly when the code is 0, it  *)
(* reports ResolutionConflict exactly when the code is 2, and it reports   *)
(* UnexpectedFailure exactly when the code is anything else, no code       *)
(* included; exactly one of the three happens, and the last two exit 1.    *)
(***************************************************************************)
C3_CheckClassification ==
  (Done /\ CheckMode /\ signal.how = "exit") =>
    LET success == Took("SelectGolden") = 1
        conflict == "conflict" \in ErrTags
        unexpected == "unexpected" \in ErrTags
    IN  /\ success <=> signal.code = IntCode(0)
        /\ conflict <=> signal.code = IntCode(2)
        /\ unexpected <=> signal.code \notin {IntCode(0), IntCode(2)}
        /\ Cardinality({b \in {<<1, success>>, <<2, conflict>>, <<3, unexpected>>} : b[2]}) = 1
        /\ (conflict \/ unexpected) => exitCode = 1

\* a CHECK run whose resolver raised SystemExit with no code
C3_Witness ==
  /\ Done
  /\ CheckMode
  /\ signal.how = "exit"
  /\ signal.code = NoCode
  /\ "unexpected" \in ErrTags

(***************************************************************************)
(* C4.  In CHECK mode after the resolver terminated with code 0, with the  *)
(* golden file lines and the scratch file lines as readlines() gives       *)
(* them: if the two sequences are equal the run exits 0 and prints nothing *)
(* to the error stream; if they differ it exits 1 after printing the diff  *)
(* and the out-of-date message, and the diff holds every differing line:   *)
(* for each line, the "-" copies less the "+" copies are its copies in the *)
(* golden file less its copies in the scratch file, and, no context being  *)
(* cut, the " " and "-" lines are the golden file and the " " and "+"      *)
(* lines the scratch file.                                                 *)
(***************************************************************************)
DiffSide(d, prefixes) ==
  LET kept == SelectSeq(d, LAMBDA e : e[1] \in prefixes /\ e \notin {<<"-", "-", "-", " ", "\n">>, <<"+", "+", "+", " ", "\n">>})
  IN  [i \in 1..Len(kept) |-> Tail(kept[i])]

C4_VerifiedIffLinesEqual ==
  (Done /\ CheckMode /\ signal.how = "exit" /\ signal.code = IntCode(0)
     /\ Exists(fs, loc.golden_filename)) =>
    LET golden == ReadLines(fs[RealPath(loc.golden_filename)])
        out == ReadLines(fs[ScratchOut])
    IN  IF golden = out
        THEN exitCode = 0 /\ stderr = <<>>
        ELSE /\ exitCode = 1
             /\ Len(stderr) = 2
             /\ stderr[1].tag = "diff"
             /\ stderr[2].tag = "stale"
             /\ LET d == stderr[1].diff
                IN  /\ \A line \in Range(golden) \cup Range(out) :
                         Count(d, <<"-">> \o line) - Count(d, <<"+">> \o line)
                           = Count(golden, line) - Count(out, line)
                    /\ (Len(golden) <= ContextLines /\ Len(out) <= ContextLines) =>
                         /\ DiffSide(d, {" ", "-"}) = golden
                         /\ DiffSide(d, {" ", "+"}) = out

\* a Stale run against a platform lock file whose diff removes and adds lines
C4_Witness ==
  /\ Done
  /\ CheckMode
  /\ exitCode = 1
  /\ loc.golden_filename = RequirementsLinux
  /\ Len(stderr) = 2
  /\ \E i, j \in DOMAIN stderr[1].diff :
       /\ stderr[1].diff[i] = <<"-">> \o LockPin
       /\ stderr[1].diff[j][1] = "+"

(***************************************************************************)
(* C5.  The golden file chosen is the host platform's override when the    *)
(* host is linux, darwin or win32 and that override is supplied, and the   *)
(* base path otherwise: with no override it is the base on every platform, *)
(* another platform's override is ignored, a matching override wins        *)
(* whatever the base is; an override given as the string "None" counts as  *)
(* not supplied.                                                           *)
(***************************************************************************)
Supplied(override) == override \notin {"None", PyNone}

C5_FirstMatchRule ==
  (probe.fn = "select" /\ probe.golden # Unset) =>
    /\ probe.golden \in {probe.base, probe.lin, probe.dar, probe.win}
    /\ (probe.plat = "linux" /\ Supplied(probe.lin)) => probe.golden = probe.lin
    /\ (probe.plat = "darwin" /\ Supplied(probe.dar)) => probe.golden = probe.dar
    /\ (probe.plat = "win32" /\ Supplied(probe.win)) => probe.golden = probe.win
    /\ ~(\/ probe.plat = "linux" /\ Supplied(probe.lin)
         \/ probe.plat = "darwin" /\ Supplied(probe.dar)
         \/ probe.plat = "win32" /\ Supplied(probe.win)) => probe.golden = probe.base

\* on win32 the Windows override is chosen and the Linux one is ignored, and
\* the macOS one is the string "None"
C5_Witness ==
  /\ probe.fn = "select"
  /\ probe.plat = "win32"
  /\ probe.lin = RequirementsLinux
  /\ probe.dar = "None"
  /\ probe.golden = RequirementsWindows

(***************************************************************************)
(* C6.  In both rendering forms, no string handed to the original          *)
(* formatter holds a backslash, and a call whose argument is already       *)
(* normalized hands over exactly the strings it was given.                 *)
(***************************************************************************)
HasBackslash(v) == \E i \in DOMAIN v : v[i] = "\\"

C6_NoBackslashAndIdempotent ==
  probe.fn \in {"split", "line"} =>
    \A k \in DOMAIN probe.calls :
      LET call == probe.calls[k]
      IN  /\ \A v \in call.handed : ~HasBackslash(v)
          /\ (\A v \in call.required_by : ~HasBackslash(v))
               => call.handed = call.required_by

\* a second call, on what a first call made of strings with backslashes
C6_Witness ==
  /\ probe.fn = "split"
  /\ Len(probe.calls) = 2
  /\ \A v \in probe.calls[1].required_by : HasBackslash(v)
  /\ Cardinality(probe.calls[1].required_by) = 2
  /\ probe.calls[2].required_by = probe.calls[1].handed
  /\ probe.calls[2].required_by # probe.calls[1].required_by

(***************************************************************************)
(* C7.  As claimed: the collection handed to the original formatter has as *)
(* many entries as the argument, each the argument's entry with its        *)
(* backslashes replaced; none is merged with another.                      *)
(***************************************************************************)
\* w is v with every backslash replaced by a slash and nothing else changed
SeparatorsNormalized(v, w) ==
  /\ Len(w) = Len(v)
  /\ \A i \in DOMAIN v : w[i] = (IF v[i] = "\\" THEN "/" ELSE v[i])

C7_EntriesKept ==
  probe.fn \in {"split", "line"} =>
    \A k \in DOMAIN probe.calls :
      LET call == probe.calls[k]
      IN  /\ Cardinality(call.handed) = Cardinality(call.required_by)
          /\ \A v \in call.required_by :
               \E w \in call.handed : SeparatorsNormalized(v, w)

(***************************************************************************)
(* C7, amended.  The collection handed to the original formatter is the    *)
(* set of the argument's entries with their backslashes replaced: every    *)
(* entry's normalized form is in it, it holds nothing else (nothing        *)
(* dropped, added or case-changed), it has no order, and entries that      *)
(* differ only in their separators are merged into one, so that it is      *)
(* smaller than the argument exactly when there are such entries.          *)
(***************************************************************************)
C7_NormalizedSet ==
  probe.fn \in {"split", "line"} =>
    \A k \in DOMAIN probe.calls :
      LET call == probe.calls[k]
          input == call.required_by
          merged == \E v1, v2 \in input :
                      /\ v1 # v2
                      /\ \E w \in call.handed : /\ SeparatorsNormalized(v1, w)
                                                /\ SeparatorsNormalized(v2, w)
      IN  /\ \A v \in input : \E w \in call.handed : SeparatorsNormalized(v, w)
          /\ \A w \in call.handed : \E v \in input : SeparatorsNormalized(v, w)
          /\ Cardinality(call.handed) <= Cardinality(input)
          /\ Cardinality(call.handed) < Cardinality(input) <=> merged

\* two entries that differ only in their separator, handed over as one
C7_Witness ==
  /\ probe.fn = "line"
  /\ Len(probe.calls) = 1
  /\ Cardinality(probe.calls[1].required_by) = 2
  /\ Cardinality(probe.calls[1].handed) = 1

(***************************************************************************)
(* C8.  In an UPDATE run with BUILD_WORKSPACE_DIRECTORY set and the lock   *)
(* file a copy of, not a link to, the source tree's file: the copy-back    *)
(* runs exactly once, at process exit and after cli() has ended (however   *)
(* it ended); until then the tree's file is untouched, and when the        *)
(* process is gone the tree's file holds what the lock file holds, which   *)
(* is what cli() left there.                                               *)
(***************************************************************************)
CopyBackCase ==
  /\ Validated
  /\ ~CheckMode
  /\ InEnviron(initial.environ, "BUILD_WORKSPACE_DIRECTORY")
  /\ ~linked
  /\ initial.fs[RequirementsTxt] # NoFile
  /\ initial.fs[TreeTxt] # NoFile

C8_CopyBackOnceAtExit ==
  CopyBackCase =>
    /\ Took("RunAtexit") <= 1
    /\ Took("Cli") <= 1
    /\ Took("RunAtexit") = 1 =>
         \E i, j \in DOMAIN trace : i < j /\ trace[i] = "Cli" /\ trace[j] = "RunAtexit"
    /\ Took("RunAtexit") = 0 => fs[TreeTxt] = initial.fs[TreeTxt]
    /\ Done =>
         /\ Took("RunAtexit") = 1
         /\ fs[TreeTxt] = fs[RequirementsTxt]
         /\ fs[RequirementsTxt] = (IF signal.wrote = NoFile THEN initial.fs[RequirementsTxt]
                                   ELSE signal.wrote)

\* the resolver rewrote the lock file and exited with 2, and the tree has the
\* new content
C8_Witness ==
  /\ Done
  /\ CopyBackCase
  /\ signal.how = "exit"
  /\ signal.code = IntCode(2)
  /\ signal.wrote # NoFile
  /\ fs[TreeTxt] = signal.wrote
  /\ fs[TreeTxt] # initial.fs[TreeTxt]
  /\ fs[TreeTxt] # initial.fs[RequirementsTxt]

(***************************************************************************)
(* C9.  As claimed: a run given fewer than the six positional arguments    *)
(* the script consumes ends with the usage message on the error stream and *)
(* exit code 1, and has changed neither the environment nor any file, nor  *)
(* called the resolver.                                                    *)
(***************************************************************************)
C9_UsageErrorOnTooFewArguments ==
  (Done /\ ~Validated) =>
    /\ Len(stderr) = 1
    /\ stderr[1].tag = "usage"
    /\ exitCode = 1
    /\ environ = initial.environ
    /\ fs = initial.fs
    /\ signal = NotRun

(***************************************************************************)
(* C10.  As claimed: a run that ends in anything but success has written   *)
(* one of the program's messages (usage, conflict, out of date,            *)
(* unexpected exit) to the error stream, in UPDATE as in CHECK.            *)
(***************************************************************************)
C10_EveryFailureReported ==
  (Done /\ exitCode # 0) =>
    ErrTags \cap {"usage", "conflict", "stale", "unexpected"} # {}

\* every step named first in the trace comes before every step named second
Precedes(first, second) ==
  \A j \in DOMAIN trace :
    trace[j] = second => \E i \in 1..(j - 1) : trace[i] = first

\* the order of a run around its resolver invocation: the setup first and
\* once; in CHECK only, at most one comparison, after a resolver that
\* terminated with code 0; in UPDATE only, at most one copy-back, after the
\* resolver
SequentialSteps ==
  /\ Took("Cli") <= 1
  /\ Took("SetLocale") <= 1 /\ Took("Configure") <= 1
  /\ Precedes("SetLocale", "Configure") /\ Precedes("Configure", "Cli")
  /\ Took("SelectGolden") <= 1 /\ Took("Compare") <= 1
  /\ Precedes("Cli", "SelectGolden") /\ Precedes("SelectGolden", "Compare")
  /\ Took("SelectGolden") = 1 =>
       CheckMode /\ signal.how = "exit" /\ signal.code = IntCode(0)
  /\ Took("RunAtexit") <= 1
  /\ Precedes("Cli", "RunAtexit")
  /\ Took("RunAtexit") = 1 => ~CheckMode
  /\ ~CheckMode => Took("SelectGolden") = 0 /\ Took("Compare") = 0
  /\ CheckMode => atexit = <<>>

(***************************************************************************)
(* C11.  As claimed: a run given all its arguments is strictly sequential  *)
(* and calls the resolver exactly once, never zero times and never twice.  *)
(***************************************************************************)
C11_ExactlyOneInvocation ==
  Validated =>
    /\ SequentialSteps
    /\ Done => Took("Cli") = 1

\* what makes the run stop before the resolver is called: an argument is
\* missing, the lock file to seed the scratch copy from is missing (CHECK), or
\* one of the two files os.path.samefile looks at is missing (UPDATE with
\* BUILD_WORKSPACE_DIRECTORY)
SetupFails ==
  \/ ~Validated
  \/ CheckMode /\ initial.fs[RealPath(RequirementsTxt)] = NoFile
  \/ /\ ~CheckMode
     /\ InEnviron(initial.environ, "BUILD_WORKSPACE_DIRECTORY")
     /\ initial.fs[RealPath(RequirementsTxt)] = NoFile \/ initial.fs[TreeTxt] = NoFile

(***************************************************************************)
(* C11, amended.  A run is strictly sequential: the environment setup,     *)
(* then at most one resolver invocation, never two and no retry, and       *)
(* exactly one unless the setup fails before it (an argument missing, the  *)
(* seed copy failing in CHECK, the same-file test failing in UPDATE); then *)
(* in CHECK mode only at most one comparison, which happens only after the *)
(* resolver terminated with code 0, and in UPDATE mode only at most one    *)
(* deferred copy-back, after the resolver ended; UPDATE never compares and *)
(* never selects a golden file.                                            *)
(***************************************************************************)
C11_StrictlySequential ==
  /\ SequentialSteps
  /\ Done => (Took("Cli") = 1 <=> ~SetupFails)

\* a CHECK run that called the resolver once and compared once, after the setup
C11_Witness ==
  /\ Done
  /\ CheckMode
  /\ Took("Cli") = 1
  /\ Took("Compare") = 1
  /\ trace = <<"ParseArgs", "SetLocale", "SelectCheck", "Configure", "CheckBranch",
               "Cli", "CheckSystemExit", "SelectGolden", "Compare", "Terminate">>

(***************************************************************************)
(* C12.  In CHECK mode, when cli() returns instead of raising SystemExit,  *)
(* the run ends as UnexpectedFailure with exit code 1: "cli() should exit" *)
(* and the unexpected-exit message are all the error stream holds, no      *)
(* golden file is selected, nothing is compared, and the run is never      *)
(* Verified, whatever the resolver wrote to the scratch file.              *)
(***************************************************************************)
C12_ReturnIsUnexpectedFailure ==
  (CheckMode /\ signal.how = "return") =>
    /\ Took("SelectGolden") = 0
    /\ Took("Compare") = 0
    /\ ~Verified
    /\ exitCode \in {-1, 1}
    /\ Done =>
         /\ exitCode = 1
         /\ stderr = <<Msg("should_exit", "cli() should exit"), Msg("unexpected", "1")>>

\* the resolver wrote a scratch file equal to the golden file and returned
C12_Witness ==
  /\ Done
  /\ CheckMode
  /\ signal.how = "return"
  /\ signal.wrote # NoFile
  /\ fs[ScratchOut] = fs[RealPath(RequirementsTxt)]
  /\ platform = "cygwin"
  /\ exitCode = 1

\* the mode has been decided: line 102 is behind
ModeSelected == Took("SelectUpdate") + Took("SelectCheck") >= 1
\* the resolver's arguments are complete: line 128 is behind
Configured == Took("Configure") >= 1

(***************************************************************************)
(* C13.  The mode is decided once, before the resolver's arguments are     *)
(* completed, and only by TEST_TMPDIR being in the caller's environment    *)
(* (in it: CHECK, not in it: UPDATE), whatever else the environment, the   *)
(* platform and the files are; from then on the UPDATE flag keeps that     *)
(* value.  Once configured, --output-file is the committed lock file       *)
(* exactly in UPDATE mode, and exactly in CHECK mode it is                 *)
(* <TEST_TMPDIR>/<name of the lock file>.out, with --cache-dir naming      *)
(* TEST_TMPDIR; and a resolver that writes its output writes that file.    *)
(***************************************************************************)
C13_ModeDecidesOutputTarget ==
  /\ Took("SelectUpdate") + Took("SelectCheck") <= 1
  /\ \A j \in DOMAIN trace :
       trace[j] = "Configure" =>
         \E i \in 1..(j - 1) : trace[i] \in {"SelectUpdate", "SelectCheck"}
  /\ ModeSelected =>
       /\ loc.UPDATE = ~CheckMode
       /\ Took("SelectCheck") = 1 <=> CheckMode
  /\ Configured =>
       LET target == OptionValue(argv, "--output-file")
       IN  /\ target = RequirementsTxt <=> loc.UPDATE
           /\ target = ScratchOut <=> ~loc.UPDATE
           /\ ~loc.UPDATE =>
                /\ OptionValue(argv, "--cache-dir") = initial.environ["TEST_TMPDIR"]
                /\ target = OptionValue(argv, "--cache-dir") \o "/requirements.txt.out"
           /\ (signal.how # "notrun" /\ signal.wrote # NoFile /\ Took("RunAtexit") = 0) =>
                fs[RealPath(target)] = signal.wrote

\* a CHECK run whose resolver rewrote the scratch file, on a host whose caller
\* also set BUILD_WORKSPACE_DIRECTORY
C13_Witness ==
  /\ Configured
  /\ CheckMode
  /\ InEnviron(initial.environ, "BUILD_WORKSPACE_DIRECTORY")
  /\ ~loc.UPDATE
  /\ OptionValue(argv, "--output-file") = ScratchOut
  /\ signal.wrote # NoFile
  /\ fs[ScratchOut] = signal.wrote
  /\ fs[ScratchOut] # initial.fs[RealPath(RequirementsTxt)]

\* the remediation messages on the error stream
StaleMessages == {i \in DOMAIN stderr : stderr[i].tag = "stale"}
\* the run ended Stale: the comparison found a difference
Stale ==
  /\ Done
  /\ Took("Compare") = 1
  /\ exitCode = 1
  /\ "traceback" \notin ErrTags

(***************************************************************************)
(* C14.  As claimed: the update command is the caller's                    *)
(* CUSTOM_COMPILE_COMMAND whenever the caller's environment has one, and   *)
(* the command derived from the target label otherwise; it is exported     *)
(* and named in the Stale message.                                         *)
(***************************************************************************)
C14_CallerCommandWheneverSet ==
  Configured =>
    /\ loc.update_command =
         (IF InEnviron(initial.environ, "CUSTOM_COMPILE_COMMAND")
          THEN initial.environ["CUSTOM_COMPILE_COMMAND"]
          ELSE "bazel run //deps:requirements.update")
    /\ environ["CUSTOM_COMPILE_COMMAND"] = loc.update_command
    /\ \A i \in StaleMessages : stderr[i].text = loc.update_command

(***************************************************************************)
(* C14, amended.  The update command is fixed before the resolver is       *)
(* invoked and does not change: it is the caller's CUSTOM_COMPILE_COMMAND   *)
(* when the caller set it to a non-empty value, and otherwise (not set, or  *)
(* set to the empty string) "bazel run " followed by the target label.  The *)
(* same string is the one in the environment of the resolver and the one   *)
(* the message of every Stale outcome names.                               *)
(***************************************************************************)
C14_UpdateCommand ==
  /\ Took("Cli") >= 1 => Configured
  /\ Configured =>
       /\ loc.update_command =
            (IF initial.environ["CUSTOM_COMPILE_COMMAND"] \notin {Unset, ""}
             THEN initial.environ["CUSTOM_COMPILE_COMMAND"]
             ELSE "bazel run //deps:requirements.update")
       /\ environ["CUSTOM_COMPILE_COMMAND"] = loc.update_command
       /\ \A i \in StaleMessages : stderr[i].text = loc.update_command
  /\ Stale => Cardinality(StaleMessages) = 1

\* a Stale run for a caller whose command is "make lock"
C14_Witness ==
  /\ Stale
  /\ initial.environ["CUSTOM_COMPILE_COMMAND"] = "make lock"
  /\ environ["CUSTOM_COMPILE_COMMAND"] = "make lock"
  /\ stderr[Len(stderr)] = Msg("stale", "make lock")

\* cli() has been called
ResolverInvoked == Took("Cli") >= 1

(***************************************************************************)
(* C15.  As claimed: when the resolver is invoked, LC_ALL and LANG are     *)
(* "C.UTF-8" whatever they were, and PIP_CONFIG_FILE is the caller's value *)
(* whenever the caller's environment has one, os.devnull otherwise.        *)
(***************************************************************************)
C15_CallerConfigNeverOverwritten ==
  (pc = "cli" \/ ResolverInvoked) =>
    /\ environ["LC_ALL"] = "C.UTF-8"
    /\ environ["LANG"] = "C.UTF-8"
    /\ environ["PIP_CONFIG_FILE"] =
         (IF InEnviron(initial.environ, "PIP_CONFIG_FILE")
          THEN initial.environ["PIP_CONFIG_FILE"]
          ELSE "/dev/null")

(***************************************************************************)
(* C15, amended.  When the resolver is invoked, in both modes, LC_ALL and  *)
(* LANG are "C.UTF-8" whatever they were, and PIP_CONFIG_FILE is the       *)
(* caller's value when the caller set it to a non-empty value and          *)
(* os.devnull otherwise (not set, or set to the empty string): a non-empty *)
(* value is never overwritten, an empty one is.                            *)
(***************************************************************************)
C15_EnvironmentNormalized ==
  (pc = "cli" \/ ResolverInvoked) =>
    /\ environ["LC_ALL"] = "C.UTF-8"
    /\ environ["LANG"] = "C.UTF-8"
    /\ environ["PIP_CONFIG_FILE"] =
         (IF initial.environ["PIP_CONFIG_FILE"] \notin {Unset, ""}
          THEN initial.environ["PIP_CONFIG_FILE"]
          ELSE "/dev/null")
    /\ environ["TEST_TMPDIR"] = initial.environ["TEST_TMPDIR"]
    /\ environ["BUILD_WORKSPACE_DIRECTORY"] = initial.environ["BUILD_WORKSPACE_DIRECTORY"]

\* an UPDATE run about to call the resolver, for a caller with a locale that is
\* not UTF-8 and a configuration file of its own
C15_Witness ==
  /\ pc = "cli"
  /\ ~CheckMode
  /\ initial.environ["LC_ALL"] = "POSIX"
  /\ initial.environ["PIP_CONFIG_FILE"] = "pip.conf"
  /\ environ["LC_ALL"] = "C.UTF-8"
  /\ environ["PIP_CONFIG_FILE"] = "pip.conf"

(***************************************************************************)
(* Two runs in a row: an UPDATE run (no TEST_TMPDIR), and when it is over  *)
(* a CHECK run of the same command line on the same host and the same      *)
(* files, under a TEST_TMPDIR, with a resolver that ends and writes as it  *)
(* did in the first run.  probe keeps how the first run ended.             *)
(***************************************************************************)
InitRoundTrip ==
  /\ InitRun(Argvs, {[LC_ALL |-> Unset, LANG |-> Unset, CUSTOM_COMPILE_COMMAND |-> Unset,
                      PIP_CONFIG_FILE |-> Unset]}, {NoFile, LockPin, LockBlankPin})
  /\ ~InEnviron(environ, "TEST_TMPDIR")

\* cli() in the first run
CliFirstRun ==
  /\ probe = NoProbe
  /\ Cli

\* cli() in the second run: the resolver is deterministic
CliAsBefore ==
  /\ probe.fn = "rerun"
  /\ Cli
  /\ signal' = probe.signal

\* the same command line is run again as a test: a new process, the files as
\* the first one left them
RunAgainInCheck ==
  /\ pc = "done"
  /\ probe = NoProbe
  /\ probe' = [fn |-> "rerun", signal |-> signal, exitCode |-> exitCode, fs |-> fs]
  /\ pc' = "start"
  /\ argv' = initial.argv
  /\ loc' = NoLocals
  /\ environ' = [initial.environ EXCEPT !["TEST_TMPDIR"] = TestTmpdir]
  /\ stdout' = <<>>
  /\ stderr' = <<>>
  /\ atexit' = <<>>
  /\ signal' = NotRun
  /\ e_code' = NoCode
  /\ exitCode' = -1
  /\ trace' = <<>>
  /\ initial' = [environ |-> environ', fs |-> fs, argv |-> argv']
  /\ UNCHANGED <<platform, linked, fs>>

NextRoundTrip ==
  \/ ArgCountError
  \/ ParseArgsIndexError
  \/ ParseArgs
  \/ SetLocale
  \/ SelectUpdate
  \/ SelectCheck
  \/ Configure
  \/ UpdateBranch
  \/ CheckBranch
  \/ CliFirstRun
  \/ CliAsBefore
  \/ UpdateReturn
  \/ UpdateSystemExit
  \/ UpdateRaise
  \/ CheckReturn
  \/ CheckSystemExit
  \/ CheckRaise
  \/ ConflictBranch
  \/ SelectGolden
  \/ Compare
  \/ UnexpectedBranch
  \/ RunAtexit
  \/ Terminate
  \/ RunAgainInCheck

SpecRoundTrip == InitRoundTrip /\ [][NextRoundTrip]_vars

\* the CHECK run that follows an UPDATE run which ended Updated: the resolver
\* terminated with code 0 and a lock file is at the committed path
AfterUpdated ==
  /\ probe.fn = "rerun"
  /\ Validated
  /\ probe.exitCode = 0
  /\ probe.signal.how = "exit"
  /\ probe.signal.code = IntCode(0)
  /\ probe.fs[RealPath(RequirementsTxt)] # NoFile

\* the override argument for the host platform ("None": not supplied)
HostOverride ==
  CASE platform = "linux" -> initial.argv[4]
    [] platform = "darwin" -> initial.argv[5]
    [] platform = "win32" -> initial.argv[6]
    [] OTHER -> "None"

(***************************************************************************)
(* C16.  As claimed: the CHECK run that follows an Updated UPDATE run ends *)
(* Verified with exit code 0, whatever overrides are supplied.             *)
(***************************************************************************)
C16_UpdateThenCheckVerified ==
  (AfterUpdated /\ Done) => Verified /\ exitCode = 0

(***************************************************************************)
(* C16, amended.  For a deterministic resolver and an unchanged            *)
(* specification, the CHECK run that follows an UPDATE run which ended     *)
(* Updated (same host, same arguments) ends Verified when no override for  *)
(* the host platform is supplied; when one is supplied, UPDATE wrote the   *)
(* base lock file and CHECK compares against the override file, and the    *)
(* run ends Verified exactly when the override file exists and has the     *)
(* lines the resolver produced, and otherwise with exit code 1.            *)
(***************************************************************************)
C16_RoundTripWithoutHostOverride ==
  (AfterUpdated /\ Done) =>
    /\ Took("Cli") = 1
    /\ signal = probe.signal
    /\ fs[RealPath(RequirementsTxt)] = probe.fs[RealPath(RequirementsTxt)]
    /\ HostOverride = "None" => Verified /\ exitCode = 0
    /\ HostOverride # "None" =>
         /\ exitCode \in {0, 1}
         /\ exitCode = 0 <=>
              /\ fs[HostOverride] # NoFile
              /\ ReadLines(fs[HostOverride]) = ReadLines(fs[RealPath(RequirementsTxt)])

\* the resolver rewrote the lock file in the UPDATE run, an override for
\* another platform is supplied, and the CHECK run is Verified
C16_Witness ==
  /\ AfterUpdated
  /\ Done
  /\ platform = "darwin"
  /\ initial.argv[4] = RequirementsLinux
  /\ probe.signal.wrote = LockPinBlank
  /\ fs[RealPath(RequirementsTxt)] = LockPinBlank
  /\ Verified
  /\ exitCode = 0

\* the seed copy of line 115 cannot be made: there is no lock file to copy
SeedFails == initial.fs[RealPath(RequirementsTxt)] = NoFile

(***************************************************************************)
(* C17.  In a CHECK run given all its arguments: the scratch file is       *)
(* seeded before cli() is called, and until cli() is called it holds the   *)
(* bytes of the base lock file, whatever overrides are supplied and        *)
(* whatever the host is; when an override for the host platform is         *)
(* supplied, the file compared against is that override and is not the     *)
(* file the seed was copied from; and when the seed copy fails, cli() is   *)
(* never called, nothing is written, and the run ends on the copy's error  *)
(* with exit code 1.                                                       *)
(***************************************************************************)
C17_SeedIsBaseLockFile ==
  (CheckMode /\ Validated) =>
    /\ Precedes("SelectCheck", "Cli")
    /\ (Took("SelectCheck") = 1 /\ Took("Cli") = 0 /\ ~SeedFails) =>
         /\ fs[ScratchOut] = initial.fs[RealPath(RequirementsTxt)]
         /\ loc.requirements_out = ScratchOut
    /\ Took("Cli") = 1 => ~SeedFails
    /\ SeedFails =>
         /\ Took("Cli") = 0
         /\ fs = initial.fs
         /\ Done => exitCode = 1 /\ stderr = <<Msg("traceback", "FileNotFoundError")>>
    /\ (Took("SelectGolden") = 1 /\ HostOverride # "None") =>
         /\ loc.golden_filename = HostOverride
         /\ RealPath(loc.golden_filename) # RealPath(RequirementsTxt)

\* on linux with a Linux override: the resolver left the seed as it was, and
\* the seed, a copy of the base lock file, is found different from the override
C17_Witness ==
  /\ Done
  /\ CheckMode
  /\ Validated
  /\ platform = "linux"
  /\ HostOverride = RequirementsLinux
  /\ signal.wrote = NoFile
  /\ Took("Compare") = 1
  /\ fs[ScratchOut] = initial.fs[RealPath(RequirementsTxt)]
  /\ fs[ScratchOut] # fs[RequirementsLinux]
  /\ exitCode = 1

\* BUILD_WORKSPACE_DIRECTORY is in the caller's environment
WorkspaceMarker == InEnviron(initial.environ, "BUILD_WORKSPACE_DIRECTORY")
\* a copy-back is registered or has run
CopyBackScheduled == atexit # <<>> \/ Took("RunAtexit") >= 1

(***************************************************************************)
(* C18.  A copy-back is registered only in an UPDATE run with              *)
(* BUILD_WORKSPACE_DIRECTORY set and the lock file not the same file as    *)
(* the source tree's, and then only one, from the lock file to the tree's  *)
(* file.  In every other run (CHECK, no marker, same file) none is         *)
(* registered and none runs, and the tree's file keeps its bytes, but for  *)
(* what the resolver itself writes through the link in an UPDATE run.      *)
(***************************************************************************)
C18_CopyBackOnlyWhenDistinct ==
  /\ Len(atexit) <= 1
  /\ \A i \in DOMAIN atexit : atexit[i] = [src |-> RequirementsTxt, dst |-> TreeTxt]
  /\ CopyBackScheduled =>
       /\ Validated
       /\ ~CheckMode
       /\ WorkspaceMarker
       /\ ~SameFile(RequirementsTxt, TreeTxt)
  /\ (CheckMode \/ ~WorkspaceMarker \/ SameFile(RequirementsTxt, TreeTxt)) =>
       /\ ~CopyBackScheduled
       /\ fs[TreeTxt] # initial.fs[TreeTxt] =>
            /\ ~CheckMode
            /\ SameFile(RequirementsTxt, TreeTxt)
            /\ signal.wrote # NoFile
            /\ fs[TreeTxt] = signal.wrote

\* an UPDATE run with the marker set and the lock file a link to the tree's
\* file: the resolver's output is in the tree and no copy-back ran
C18_Witness ==
  /\ Done
  /\ ~CheckMode
  /\ WorkspaceMarker
  /\ SameFile(RequirementsTxt, TreeTxt)
  /\ signal.wrote # NoFile
  /\ fs[TreeTxt] = signal.wrote
  /\ fs[TreeTxt] # initial.fs[TreeTxt]
  /\ Took("RunAtexit") = 0
  /\ Took("UpdateBranch") = 1
====
